---- MODULE Spec2Model ----
(***************************************************************************)
(* sherlock: a Prometheus exporter that scrapes Redfish BMCs.              *)
(*                                                                         *)
(* The model covers the metrics handler (cmd/sherlock main), the           *)
(* SherlockCollector (client registry, collectTarget, Close), the Redfish  *)
(* Client (mutex, GetChassis, GetMainChassis, reconnect, Close) and the    *)
(* five collectors (system, sensors, power, fans, telemetry).              *)
(*                                                                         *)
(* Every goroutine is a process with a program counter.  A remote call is  *)
(* two steps: it is issued (the goroutine is then "in flight") and it      *)
(* returns with an outcome chosen by the remote side.  A sync.Mutex is a   *)
(* holder field; Lock is enabled only while the holder is None, also for   *)
(* the goroutine that already holds it (sync.Mutex is not reentrant).      *)
(***************************************************************************)
EXTENDS Integers, Sequences, FiniteSets, TLC

\* ------------------------------------------------------------------ bounds

\* Connections (gofish API clients) the model lets the process open.
MaxConn == 2

\* Failures (an error, a partial or an empty answer, a refused connect) the
\* remote side may inject in one behaviour of the single-request
\* specifications, and in one behaviour with two concurrent requests.
MaxFaults == 2
MaxList == 3
OrchFaults == 1

\* ------------------------------------------------------------- vocabulary

None == "none"

\* A string is a sequence of tokens, so that a prefix can be stripped.
T1 == <<"bmc1">>
T2 == <<"bmc2">>
\* The hosts a BMC answers on; a connect to any other name fails.
Hosts == {T1, T2}

\* Values of the `target` query parameter the handler is given.
Params == {<< >>, T1, T2, <<"http://", "bmc1">>, <<"https://", "bmc2">>,
           <<"https://", "http://", "bmc1">>}

\* The HTTP handler goroutines (one per request in progress).
Reqs == {"r1", "r2"}

Collectors == <<"system", "sensors", "power", "fans", "telemetry">>
Variants == {Collectors[i] : i \in 1..Len(Collectors)}
Workers == Reqs \X Variants

DenyID == "NVMeSSD.0.Group.0.StorageBackplane"
MainID == "1"

\* --------------------------------------------------------------- helpers

EmptyMap == [k \in {} |-> k]

Put(f, k, v) == [x \in (DOMAIN f) \cup {k} |-> IF x = k THEN v ELSE f[x]]

Range(s) == {s[i] : i \in DOMAIN s}

\* strings.TrimPrefix
TrimPrefix(s, p) == IF Len(s) > 0 /\ Head(s) = p THEN Tail(s) ELSE s

\* The handler's normalisation of the target parameter.
NormalizeTarget(p) == TrimPrefix(TrimPrefix(p, "http://"), "https://")

\* utils.Round(x, 3) on a value given in 1/10000 of a unit (x >= 0):
\* the result is a multiple of 10, i.e. has three decimal places.
Round3(x) == ((x + 5) \div 10) * 10

\* ------------------------------------------------------- the remote side
\* What each BMC holds.  Numeric readings differ between the two hosts, so
\* that the host a value was read from can be told from the value.

HostBase(h) == IF h = T1 THEN 100 ELSE 200
OriginOf(v) == IF v \div 100 = 1 THEN T1 ELSE T2

\* Service.Chassis(): the complete list of chassis identifiers.
ChassisList(h) == IF h = T1 THEN <<DenyID, "B", "C">> ELSE <<MainID, DenyID, "B">>

\* The items a list call may return together with a "failed to retrieve
\* some items" error.
PartialLists(h) == IF h = T1 THEN {<< >>, <<"C">>} ELSE {<< >>, <<MainID>>}

\* What a chassis-list call can come back with.
ListOutcomes(h) ==
    {[err |-> None, items |-> ChassisList(h)],
     [err |-> "transport", items |-> << >>],
     [err |-> "auth", items |-> << >>]}
    \cup {[err |-> "partial", items |-> l] : l \in PartialLists(h)}

PSU(n, hl, k, h) ==
    [Name |-> n, Health |-> hl, In |-> HostBase(h) + k, Out |-> HostBase(h) + k + 1]

\* chassis.Power(): power supplies, voltages and power control per chassis.
PowerOf(h, id) ==
    IF id = "C" THEN
        [PowerSupplies |-> <<PSU("PSU1", "OK", 10, h), PSU("PSU2", "Critical", 20, h)>>,
         Voltages |-> << >>, PowerControl |-> << >>]
    ELSE IF id = MainID THEN
        [PowerSupplies |-> <<PSU("PS", "", 30, h), PSU("", "OK", 40, h),
                             PSU("PS", "Warning", 50, h)>>,
         Voltages |-> <<[Name |-> "CPU", Health |-> "OK", Volts |-> HostBase(h) * 100 + 17],
                        [Name |-> "", Health |-> "OK", Volts |-> HostBase(h) * 100 + 20],
                        [Name |-> "12V", Health |-> "", Volts |-> HostBase(h) * 100 + 30]>>,
         PowerControl |-> <<0, HostBase(h) + 60, HostBase(h) + 70>>]
    ELSE IF id = DenyID THEN
        [PowerSupplies |-> <<PSU("NV", "OK", 90, h)>>,
         Voltages |-> << >>, PowerControl |-> << >>]
    ELSE
        [PowerSupplies |-> << >>, Voltages |-> << >>, PowerControl |-> << >>]

\* chassis.Thermal(): temperatures and fans per chassis.
ThermalOf(h, id) ==
    IF id = MainID THEN
        [Temperatures |-> <<[Name |-> "CPU", Health |-> "Warning", Celsius |-> HostBase(h) + 41],
                            [Name |-> "", Health |-> "OK", Celsius |-> HostBase(h) + 42],
                            [Name |-> "Inlet", Health |-> "OK", Celsius |-> HostBase(h) + 43]>>,
         Fans |-> <<[Name |-> "Fan1", Health |-> "OK", State |-> "Enabled", Reading |-> HostBase(h) + 80],
                    [Name |-> "", Health |-> "OK", State |-> "Enabled", Reading |-> HostBase(h) + 81],
                    [Name |-> "Fan2", Health |-> "", State |-> "Absent", Reading |-> HostBase(h)]>>]
    ELSE
        [Temperatures |-> << >>, Fans |-> << >>]

\* system.Processors() of the first system.
ProcessorsOf(h) ==
    IF h = T1 THEN
        <<[ID |-> "CPU1", Health |-> "OK", Model |-> "X", TotalCores |-> 8],
          [ID |-> "CPU2", Health |-> "Critical", Model |-> "X", TotalCores |-> 8]>>
    ELSE
        <<[ID |-> "CPU1", Health |-> "", Model |-> "Y", TotalCores |-> 4]>>

\* Service.Systems(): the systems a BMC lists (a BMC may also list none).
\* MemGiB is MemorySummary.TotalSystemMemoryGiB in tenths of a GiB.
SystemsOf(h) ==
    <<[PowerState |-> "On",
       MemHealth |-> (IF h = T1 THEN "Warning" ELSE "OK"),
       MemGiB |-> HostBase(h) * 10 + 285]>>

SystemsOutcomes(h) ==
    {[err |-> None, items |-> SystemsOf(h)],
     [err |-> None, items |-> << >>],
     [err |-> "transport", items |-> << >>]}

\* A sub-resource read (Power, Thermal, Processors) succeeds or fails.
ReadOutcomes == {"ok", "error"}

\* ------------------------------------------------------ health mapping
\* Each collector carries its own copy of the mapping of a Status.Health
\* text to a gauge value: 2 when empty, 1 for "OK", 0 otherwise.

\* A mapping that takes every status other than "OK" for a failure, the
\* empty one included.
fanHealthValueTwoValued(status) == IF status = "OK" THEN 1 ELSE 0

cpuHealthValue(status) == IF status # "" THEN (IF status = "OK" THEN 1 ELSE 0) ELSE 2

memoryHealthValue(status) == IF status # "" THEN (IF status = "OK" THEN 1 ELSE 0) ELSE 2

tempHealthValue(status) == IF status # "" THEN (IF status = "OK" THEN 1 ELSE 0) ELSE 2

voltHealthValue(status) == IF status # "" THEN (IF status = "OK" THEN 1 ELSE 0) ELSE 2

psuHealthValue(status) == IF status # "" THEN (IF status = "OK" THEN 1 ELSE 0) ELSE 2

altPsuHealthValue(status) == IF status # "" THEN (IF status = "OK" THEN 1 ELSE 0) ELSE 2

fanHealthValue(status) == IF status # "" THEN (IF status = "OK" THEN 1 ELSE 0) ELSE 2

\* ------------------------------------------------- snapshot construction

\* fmt.Sprintf("%.0f", x) for x >= 0 given in tenths: round to nearest, ties to even.
FormatGiB(x) ==
    LET q == x \div 10
        r == x % 10
    IN IF r > 5 \/ (r = 5 /\ q % 2 = 1) THEN q + 1 ELSE q

\* SystemCollector.Update, the loop over the processors.
RECURSIVE cpuFill(_, _, _, _)
cpuFill(rd, procs, i, powerState) ==
    IF i > Len(procs) THEN rd
    ELSE LET cpu == procs[i]
         IN cpuFill(Put(rd, cpu.ID,
                        [powerState |-> powerState,
                         health |-> cpuHealthValue(cpu.Health),
                         cores |-> cpu.TotalCores,
                         name |-> cpu.ID,
                         model |-> cpu.Model,
                         totalMemoryGiB |-> ""]),
                    procs, i + 1, powerState)

\* SystemCollector.Update from the power state on: the new snapshot and
\* first CPU id, given the system and its processors.
systemFill(system, procs, oldFirst) ==
    LET powerState == IF system.PowerState = "On" THEN 1 ELSE 0
        first == IF Len(procs) > 0 THEN procs[1].ID ELSE oldFirst
        rd == cpuFill(EmptyMap, procs, 1, powerState)
        memoryHealth == memoryHealthValue(system.MemHealth)
        total == FormatGiB(system.MemGiB)
    IN [firstCPUID |-> first,
        readings |->
            IF DOMAIN rd # {} THEN
                Put(rd, first,
                    [rd[first] EXCEPT !.health = memoryHealth,
                                      !.powerState = powerState,
                                      !.totalMemoryGiB = total])
            ELSE rd]

\* SensorCollector.Update, the loop over thermal.Temperatures.
RECURSIVE tempFill(_, _, _)
tempFill(rd, temps, i) ==
    IF i > Len(temps) THEN rd
    ELSE LET t == temps[i]
         IN IF t.Name = "" THEN tempFill(rd, temps, i + 1)
            ELSE tempFill(Put(rd, t.Name,
                              [value |-> t.Celsius,
                               health |-> tempHealthValue(t.Health),
                               name |-> t.Name,
                               sensorType |-> "temperature"]),
                          temps, i + 1)

\* SensorCollector.Update, the loop over power.Voltages.
RECURSIVE voltFill(_, _, _)
voltFill(rd, volts, i) ==
    IF i > Len(volts) THEN rd
    ELSE LET v == volts[i]
         IN IF v.Name = "" THEN voltFill(rd, volts, i + 1)
            ELSE voltFill(Put(rd, v.Name,
                              [value |-> Round3(v.Volts),
                               health |-> voltHealthValue(v.Health),
                               name |-> v.Name,
                               sensorType |-> "voltage"]),
                          volts, i + 1)

\* A loop over power.PowerSupplies that gives every reading the display
\* name "PSU 1".
RECURSIVE psuFillUnnumbered(_, _, _, _)
psuFillUnnumbered(rd, psus, i, psuCount) ==
    IF i > Len(psus) THEN [readings |-> rd, psuCount |-> psuCount]
    ELSE LET p == psus[i]
         IN IF p.Name = "" THEN psuFillUnnumbered(rd, psus, i + 1, psuCount)
            ELSE psuFillUnnumbered(Put(rd, p.Name,
                                       [health |-> psuHealthValue(p.Health),
                                        name |-> <<"PSU", 1>>,
                                        acPower |-> p.In,
                                        dcPower |-> p.Out]),
                                   psus, i + 1, psuCount + 1)

\* PowerCollector.Update, the loop over power.PowerSupplies; the result is
\* the snapshot and psuCount.
RECURSIVE psuFill(_, _, _, _)
psuFill(rd, psus, i, psuCount) ==
    IF i > Len(psus) THEN [readings |-> rd, psuCount |-> psuCount]
    ELSE LET p == psus[i]
         IN IF p.Name = "" THEN psuFill(rd, psus, i + 1, psuCount)
            ELSE psuFill(Put(rd, p.Name,
                             [health |-> psuHealthValue(p.Health),
                              name |-> <<"PSU", psuCount + 1>>,
                              acPower |-> p.In,
                              dcPower |-> p.Out]),
                         psus, i + 1, psuCount + 1)

\* PowerCollector.tryAlternativeChassis, the same loop in the fallback scan.
RECURSIVE altPsuFill(_, _, _, _)
altPsuFill(rd, psus, i, psuCount) ==
    IF i > Len(psus) THEN [readings |-> rd, psuCount |-> psuCount]
    ELSE LET p == psus[i]
         IN IF p.Name = "" THEN altPsuFill(rd, psus, i + 1, psuCount)
            ELSE altPsuFill(Put(rd, p.Name,
                                [health |-> altPsuHealthValue(p.Health),
                                 name |-> <<"PSU", psuCount + 1>>,
                                 acPower |-> p.In,
                                 dcPower |-> p.Out]),
                            psus, i + 1, psuCount + 1)

\* FansCollector.Update, the loop over thermal.Fans.
RECURSIVE fanFill(_, _, _)
fanFill(rd, fans, i) ==
    IF i > Len(fans) THEN rd
    ELSE LET f == fans[i]
         IN IF f.Name = "" THEN fanFill(rd, fans, i + 1)
            ELSE fanFill(Put(rd, f.Name,
                             [health |-> fanHealthValue(f.Health),
                              state |-> (IF f.State = "Enabled" THEN 1 ELSE 0),
                              speed |-> f.Reading,
                              name |-> f.Name]),
                         fans, i + 1)

\* A loop over power.PowerControl without the break: the last strictly
\* positive PowerConsumedWatts wins.
RECURSIVE telemetryFillLast(_, _, _)
telemetryFillLast(reading, pcs, i) ==
    IF i > Len(pcs) THEN reading
    ELSE IF pcs[i] > 0 THEN telemetryFillLast(pcs[i], pcs, i + 1)
    ELSE telemetryFillLast(reading, pcs, i + 1)

\* TelemetryCollector.Update, the loop over power.PowerControl: the first
\* strictly positive PowerConsumedWatts, or the reading as it was.
RECURSIVE telemetryFill(_, _, _)
telemetryFill(reading, pcs, i) ==
    IF i > Len(pcs) THEN reading
    ELSE IF pcs[i] > 0 THEN pcs[i]
    ELSE telemetryFill(reading, pcs, i + 1)

\* The telemetry collector keeps one number; the model stores it under this key.
WattsKey == "watts"

\* The snapshot a collector is constructed with (NewSystemCollector, ...): an
\* empty map, or for the telemetry collector the reading 0.
NewReadings(v) == IF v = "telemetry" THEN [k \in {WattsKey} |-> 0] ELSE EmptyMap

\* No reading is held.
IsEmptySnapshot(v, rd) == IF v = "telemetry" THEN rd[WattsKey] = 0 ELSE DOMAIN rd = {}

\* ------------------------------------------------------------- Collect
\* A sample is a metric name, its label values and its value.

Sample(m, l, v) == [metric |-> m, labels |-> l, value |-> v]

systemSamples(rd, first) ==
    UNION {(IF rd[k].name = first THEN
                {Sample("ipmi_system_power_state", << >>, rd[k].powerState),
                 Sample("ipmi_memory_health", <<rd[k].totalMemoryGiB>>, rd[k].health)}
            ELSE {})
           \cup {Sample("ipmi_cpu_health", <<rd[k].name, rd[k].model, rd[k].cores>>,
                        rd[k].health)}
           : k \in DOMAIN rd}

sensorSamples(rd) ==
    UNION {IF rd[k].sensorType = "temperature" THEN
               {Sample("ipmi_temperature_celsius", <<rd[k].name>>, rd[k].value),
                Sample("ipmi_temperature_health", <<rd[k].name>>, rd[k].health)}
           ELSE IF rd[k].sensorType = "voltage" THEN
               {Sample("ipmi_voltage_volts", <<rd[k].name>>, rd[k].value),
                Sample("ipmi_voltage_health", <<rd[k].name>>, rd[k].health)}
           ELSE {}
           : k \in DOMAIN rd}

powerSamples(rd) ==
    UNION {{Sample("ipmi_psu_health", <<rd[k].name>>, rd[k].health),
            Sample("ipmi_psu_ac_input_power_watts", <<rd[k].name>>, rd[k].acPower),
            Sample("ipmi_psu_dc_output_power_watts", <<rd[k].name>>, rd[k].dcPower)}
           : k \in DOMAIN rd}

fanSamples(rd) ==
    UNION {{Sample("ipmi_fan_health", <<rd[k].name>>, rd[k].health),
            Sample("ipmi_fan_state", <<rd[k].name>>, rd[k].state),
            Sample("ipmi_fan_speed_rpm", <<rd[k].name>>, rd[k].speed)}
           : k \in DOMAIN rd}

telemetrySamples(rd) ==
    IF WattsKey \in DOMAIN rd /\ rd[WattsKey] > 0 THEN
        {Sample("ipmi_telemetry_power_consumption_watts", << >>, rd[WattsKey])}
    ELSE {}

\* The samples the Collect of collector variant v emits for snapshot rd.
CollectSamples(v, rd, first) ==
    CASE v = "system" -> systemSamples(rd, first)
      [] v = "sensors" -> sensorSamples(rd)
      [] v = "power" -> powerSamples(rd)
      [] v = "fans" -> fanSamples(rd)
      [] v = "telemetry" -> telemetrySamples(rd)

\* ---------------------------------------------------------------- state

VARIABLES
    proc,       \* the process: "running", "crashed" (a goroutine panicked) or "exited"
    req,        \* per handler goroutine: pc, host, client, status, stream, idx
    wk,         \* per Update goroutine: pc and locals
    coll,       \* per collector instance: readings, firstCPUID, locked (its mutex)
    clients,    \* SherlockCollector.clients: hostname -> client
    regMutex,   \* SherlockCollector.mutex: its holder
    sess,       \* the redfish.Client objects: host, handle (APIClient), mutex
    conns,      \* the connections opened so far: host, logouts
    errChan,    \* per request: the buffered error channel of collectTarget
    closer,     \* the shutdown goroutine's pc
    faults      \* the failures the remote side may still inject

vars == <<proc, req, wk, coll, clients, regMutex, sess, conns, errChan, closer, faults>>

NoHolder == << >>
CloserId == <<"closer">>

IdleReq == [pc |-> "idle", host |-> << >>, client |-> 0, status |-> 0,
            stream |-> {}, idx |-> 0]

IdleWorker(v) == [pc |-> "idle", conn |-> 0, ch |-> "", items |-> << >>, idx |-> 0,
                  pre |-> NewReadings(v), stored |-> {}, failed |-> FALSE]

NewCollector(v) == [readings |-> NewReadings(v), firstCPUID |-> "", locked |-> FALSE]

\* One client for every request, whatever its target.
ClientOfAnyTarget(w) == 1

\* collectTarget hands the client that getClient returned for the request's
\* target to the Update of each of its collectors.
ClientOf(w) == req[w[1]].client

\* The host whose data a call through connection h reads.
HostOfConn(h) == conns[h].host

\* A worker goroutine has a remote read in flight.
ReadPcs == {"sys_systems", "sys_procs", "gmc_list", "gmc_retry", "gc_list",
            "sen_thermal", "sen_power", "pow_power", "alt_power", "fan_thermal",
            "tel_power"}

InFlight(w) == wk[w].pc \in ReadPcs

\* An Update call is in progress on the collector of w.
InUpdate(w) == wk[w].pc \notin {"idle", "done"}

\* The Update goroutine at its return: wg.Done() follows.
Returned(rec, failed) ==
    [rec EXCEPT !.pc = "done", !.conn = 0, !.ch = "", !.items = << >>, !.idx = 0,
                !.failed = failed]

Init ==
    /\ proc = "running"
    /\ req = [r \in Reqs |-> IF r = "r1" THEN IdleReq ELSE [IdleReq EXCEPT !.pc = "off"]]
    /\ wk = [w \in Workers |-> IdleWorker(w[2])]
    /\ coll = [w \in Workers |-> NewCollector(w[2])]
    /\ clients = EmptyMap
    /\ regMutex = None
    /\ sess = << >>
    /\ conns = << >>
    /\ errChan = [r \in Reqs |-> << >>]
    /\ closer = "idle"
    /\ faults = MaxFaults

\* The remote side answers with a failure only while its budget lasts.
Inject(isFault) ==
    /\ isFault => faults > 0
    /\ faults' = IF isFault THEN faults - 1 ELSE faults

\* ------------------------------------------------- the metrics handler

\* A handler that goes on with whatever target it is given.
metricsHandlerAnyTarget(r, p) ==
    /\ proc = "running"
    /\ req[r].pc = "idle"
    /\ req' = [req EXCEPT ![r] = [IdleReq EXCEPT !.pc = "getClient", !.host = p]]
    /\ UNCHANGED <<proc, wk, coll, clients, regMutex, sess, conns, errChan, closer, faults>>

\* http.HandleFunc(*metricsPath, ...): a request arrives with target
\* parameter p.  An empty target is answered with 400 Bad Request at once;
\* otherwise the handler goes on with the target (req[r].host is the
\* handler's variable `target`).
metricsHandler(r, p) ==
    /\ proc = "running"
    /\ req[r].pc = "idle"
    /\ req' = [req EXCEPT ![r] =
                 IF p = << >> THEN [IdleReq EXCEPT !.pc = "responded", !.status = 400]
                 ELSE [IdleReq EXCEPT !.pc = "getClient", !.host = p]]
    /\ UNCHANGED <<proc, wk, coll, clients, regMutex, sess, conns, errChan, closer, faults>>

\* A getClient that does not wait for the registry's mutex.
getClientUnlocked(r) ==
    /\ proc = "running"
    /\ req[r].pc = "getClient"
    /\ LET host == NormalizeTarget(req[r].host) IN
       IF host \in DOMAIN clients
       THEN /\ req' = [req EXCEPT ![r].pc = "fanout", ![r].host = host,
                                  ![r].client = clients[host]]
            /\ UNCHANGED regMutex
       ELSE /\ req' = [req EXCEPT ![r].pc = "connecting", ![r].host = host]
            /\ regMutex' = r
    /\ UNCHANGED <<proc, wk, coll, clients, sess, conns, errChan, closer, faults>>

\* The handler normalises the target, builds a registry and a
\* SherlockCollector for it, and collectTarget calls getClient.
\* SherlockCollector.getClient up to the connect: lock the registry, return
\* the cached client (the deferred unlock runs), or start connecting with
\* the registry lock held.
getClient(r) ==
    /\ proc = "running"
    /\ req[r].pc = "getClient"
    /\ regMutex = None
    /\ LET host == NormalizeTarget(req[r].host) IN
       IF host \in DOMAIN clients
       THEN /\ req' = [req EXCEPT ![r].pc = "fanout", ![r].host = host,
                                  ![r].client = clients[host]]
            /\ UNCHANGED regMutex
       ELSE /\ req' = [req EXCEPT ![r].pc = "connecting", ![r].host = host]
            /\ regMutex' = r
    /\ UNCHANGED <<proc, wk, coll, clients, sess, conns, errChan, closer, faults>>

\* A getClient whose failure is answered with an error status.
connectReturnFailsLoudly(r) ==
    /\ proc = "running"
    /\ req[r].pc = "connecting"
    /\ \E ok \in BOOLEAN :
         /\ ok => (req[r].host \in Hosts /\ Len(conns) < MaxConn)
         /\ Inject(~ok /\ req[r].host \in Hosts /\ Len(conns) < MaxConn)
         /\ IF ok
            THEN /\ conns' = Append(conns, [host |-> req[r].host, logouts |-> 0])
                 /\ sess' = Append(sess, [host |-> req[r].host,
                                          handle |-> Len(conns) + 1,
                                          mutex |-> NoHolder])
                 /\ clients' = Put(clients, req[r].host, Len(sess) + 1)
                 /\ req' = [req EXCEPT ![r].pc = "fanout", ![r].client = Len(sess) + 1]
            ELSE /\ req' = [req EXCEPT ![r].pc = "responded", ![r].status = 500]
                 /\ UNCHANGED <<conns, sess, clients>>
    /\ regMutex' = None
    /\ UNCHANGED <<proc, wk, coll, errChan, closer>>

\* redfish.NewClient / connect returns inside getClient.  On success the new
\* client is stored under the hostname; on failure collectTarget logs the
\* error and returns, and the request is answered with no samples.
connectReturn(r) ==
    /\ proc = "running"
    /\ req[r].pc = "connecting"
    /\ \E ok \in BOOLEAN :
         /\ ok => (req[r].host \in Hosts /\ Len(conns) < MaxConn)
         /\ Inject(~ok /\ req[r].host \in Hosts /\ Len(conns) < MaxConn)
         /\ IF ok
            THEN /\ conns' = Append(conns, [host |-> req[r].host, logouts |-> 0])
                 /\ sess' = Append(sess, [host |-> req[r].host,
                                          handle |-> Len(conns) + 1,
                                          mutex |-> NoHolder])
                 /\ clients' = Put(clients, req[r].host, Len(sess) + 1)
                 /\ req' = [req EXCEPT ![r].pc = "fanout", ![r].client = Len(sess) + 1]
            ELSE /\ req' = [req EXCEPT ![r].pc = "responded", ![r].status = 200]
                 /\ UNCHANGED <<conns, sess, clients>>
    /\ regMutex' = None
    /\ UNCHANGED <<proc, wk, coll, errChan, closer>>

\* An error channel without a buffer.
ErrChanUnbuffered == Len(<< >>)

\* The capacity of the error channel: make(chan error, len(collectors)).
ErrChanCap == Len(Collectors)

\* collectTarget after getClient: five fresh collectors, SetTarget on each,
\* wg.Add(5), the error channel of capacity 5, and one goroutine per collector.
collectTarget(r) ==
    /\ proc = "running"
    /\ req[r].pc = "fanout"
    /\ req' = [req EXCEPT ![r].pc = "wait"]
    /\ wk' = [w \in Workers |->
                IF w[1] = r THEN [IdleWorker(w[2]) EXCEPT !.pc = "start"] ELSE wk[w]]
    /\ coll' = [w \in Workers |-> IF w[1] = r THEN NewCollector(w[2]) ELSE coll[w]]
    /\ errChan' = [errChan EXCEPT ![r] = << >>]
    /\ UNCHANGED <<proc, clients, regMutex, sess, conns, closer, faults>>

\* A join that returns as soon as one goroutine is done.
waitGroupWaitAny(r) ==
    /\ proc = "running"
    /\ req[r].pc = "wait"
    /\ \E v \in Variants : wk[<<r, v>>].pc = "done"
    /\ req' = [req EXCEPT ![r].pc = "collect", ![r].idx = 1]
    /\ errChan' = [errChan EXCEPT ![r] = << >>]
    /\ UNCHANGED <<proc, wk, coll, clients, regMutex, sess, conns, closer, faults>>

\* wg.Wait() returns once every goroutine called wg.Done(); the error channel
\* is closed and drained into the log.
waitGroupWait(r) ==
    /\ proc = "running"
    /\ req[r].pc = "wait"
    /\ \A v \in Variants : wk[<<r, v>>].pc = "done"
    /\ req' = [req EXCEPT ![r].pc = "collect", ![r].idx = 1]
    /\ errChan' = [errChan EXCEPT ![r] = << >>]
    /\ UNCHANGED <<proc, wk, coll, clients, regMutex, sess, conns, closer, faults>>

\* One iteration of the closing loop of collectTarget: Collect of the next
\* collector, under that collector's mutex.  After the last one the handler
\* answers 200 with the gathered samples.
collectorCollect(r) ==
    /\ proc = "running"
    /\ req[r].pc = "collect"
    /\ LET v == Collectors[req[r].idx]
           c == coll[<<r, v>>]
       IN /\ ~c.locked
          /\ req' = [req EXCEPT
                       ![r].stream = @ \cup CollectSamples(v, c.readings, c.firstCPUID),
                       ![r].idx = IF @ = Len(Collectors) THEN 0 ELSE @ + 1,
                       ![r].pc = IF req[r].idx = Len(Collectors) THEN "responded" ELSE @,
                       ![r].status = IF req[r].idx = Len(Collectors) THEN 200 ELSE @]
    /\ UNCHANGED <<proc, wk, coll, clients, regMutex, sess, conns, errChan, closer, faults>>

\* The handler returns; its goroutine, collectors and registry are gone.
handlerReturn(r) ==
    /\ proc = "running"
    /\ req[r].pc = "responded"
    /\ req' = [req EXCEPT ![r] = IdleReq]
    /\ wk' = [w \in Workers |-> IF w[1] = r THEN IdleWorker(w[2]) ELSE wk[w]]
    /\ coll' = [w \in Workers |-> IF w[1] = r THEN NewCollector(w[2]) ELSE coll[w]]
    /\ errChan' = [errChan EXCEPT ![r] = << >>]
    /\ UNCHANGED <<proc, clients, regMutex, sess, conns, closer, faults>>

\* ------------------------------------------------------------ shutdown

\* The signal goroutine: a signal arrives and SherlockCollector.Close locks
\* the registry.
closeBegin ==
    /\ proc = "running"
    /\ closer = "idle"
    /\ regMutex = None
    /\ regMutex' = CloserId[1]
    /\ closer' = "closing"
    /\ UNCHANGED <<proc, req, wk, coll, clients, sess, conns, errChan, faults>>

\* A Close that drops a registry entry without closing its client.
closeClientForget ==
    /\ proc = "running"
    /\ closer = "closing"
    /\ \E h \in DOMAIN clients :
         clients' = [x \in (DOMAIN clients) \ {h} |-> clients[x]]
    /\ UNCHANGED <<proc, req, wk, coll, regMutex, sess, conns, errChan, closer, faults>>

\* One iteration of the loop of SherlockCollector.Close: Client.Close (lock
\* the client, Logout when APIClient is set, unlock) and delete the entry.
closeClient ==
    /\ proc = "running"
    /\ closer = "closing"
    /\ \E h \in DOMAIN clients :
         LET c == clients[h] IN
         /\ sess[c].mutex = NoHolder
         /\ conns' = IF sess[c].handle # 0
                     THEN [conns EXCEPT ![sess[c].handle].logouts = @ + 1]
                     ELSE conns
         /\ clients' = [x \in (DOMAIN clients) \ {h} |-> clients[x]]
    /\ UNCHANGED <<proc, req, wk, coll, regMutex, sess, errChan, closer, faults>>

\* SherlockCollector.Close returns (the deferred unlock) once the loop is over.
closeReturn ==
    /\ proc = "running"
    /\ closer = "closing"
    /\ DOMAIN clients = {}
    /\ regMutex' = None
    /\ closer' = "closed"
    /\ UNCHANGED <<proc, req, wk, coll, clients, sess, conns, errChan, faults>>

\* os.Exit(0) after Close.
exit ==
    /\ proc = "running"
    /\ closer = "closed"
    /\ proc' = "exited"
    /\ UNCHANGED <<req, wk, coll, clients, regMutex, sess, conns, errChan, closer, faults>>

\* ------------------------------------------------------ redfish.Client

\* A lookup that keeps the last entry whose ID equals id.
RECURSIVE findLastChassis(_, _, _)
findLastChassis(items, id, i) ==
    IF i > Len(items) THEN 0
    ELSE LET rest == findLastChassis(items, id, i + 1) IN
         IF rest > 0 THEN rest
         ELSE IF items[i] = id THEN i
         ELSE 0

\* The loop at the end of GetMainChassis (and of GetChassisWithID): the
\* index of the first entry whose ID equals id, or 0.
RECURSIVE findChassis(_, _, _)
findChassis(items, id, i) ==
    IF i > Len(items) THEN 0
    ELSE IF items[i] = id THEN i
    ELSE findChassis(items, id, i + 1)

\* A GetMainChassis that tolerates no partial retrieval: every error other
\* than an authentication error fails the call, whatever came with it.
listResultPartialFails(o, retry) ==
    LET lookup == IF Len(o.items) = 0 THEN "error"
                  ELSE IF findChassis(o.items, MainID, 1) > 0 THEN "found"
                  ELSE "error"
    IN IF o.err # None THEN
           IF retry THEN "error"
           ELSE IF o.err = "auth" THEN "reconnect"
           ELSE "error"
       ELSE lookup

\* GetMainChassis, what it does with the outcome o of a chassis-list call:
\* "found", "error" or "reconnect".  retry is TRUE for the call after a reconnect.
listResult(o, retry) ==
    LET lookup == IF Len(o.items) = 0 THEN "error"
                  ELSE IF findChassis(o.items, MainID, 1) > 0 THEN "found"
                  ELSE "error"
    IN IF o.err # None THEN
           IF retry THEN "error"
           ELSE IF o.err = "partial" /\ Len(o.items) > 0 THEN lookup
           ELSE IF o.err = "auth" THEN "reconnect"
           ELSE "error"
       ELSE lookup

\* Client.GetChassisWithID(id), what it does with the outcome o of a
\* chassis-list call: it hands over to GetMainChassis when id is "1", and
\* otherwise runs its own copy of the pipeline with id in the final loop.
GetChassisWithID(o, retry, id) ==
    LET lookup == IF Len(o.items) = 0 THEN "error"
                  ELSE IF findChassis(o.items, id, 1) > 0 THEN "found"
                  ELSE "error"
    IN IF id = MainID THEN listResult(o, retry)
       ELSE IF o.err # None THEN
           IF retry THEN "error"
           ELSE IF o.err = "partial" /\ Len(o.items) > 0 THEN lookup
           ELSE IF o.err = "auth" THEN "reconnect"
           ELSE "error"
       ELSE lookup

\* Collectors none of which locks its mutex before its first read.
afterChassisUnlocked(w, found, conn) ==
    LET v == w[2] IN
    IF found THEN
        [wk |-> [wk[w] EXCEPT !.pc = CASE v = "sensors" -> "sen_thermal"
                                       [] v = "power" -> "pow_power"
                                       [] v = "fans" -> "fan_thermal"
                                       [] v = "telemetry" -> "tel_power",
                              !.ch = MainID, !.conn = conn],
         coll |-> coll[w]]
    ELSE IF v = "power" THEN
        [wk |-> [wk[w] EXCEPT !.pc = "gc_lock", !.conn = 0, !.failed = TRUE],
         coll |-> coll[w]]
    ELSE
        [wk |-> Returned(wk[w], TRUE), coll |-> coll[w]]

\* The collector's code after its chassis lookup returned (found or not):
\* the records of the goroutine and of the collector.  The sensors collector
\* locks its mutex before the thermal read; the power collector turns to
\* tryAlternativeChassis when the lookup failed; the others return.
afterChassis(w, found, conn) ==
    LET v == w[2] IN
    IF found THEN
        [wk |-> [wk[w] EXCEPT !.pc = CASE v = "sensors" -> "sen_thermal"
                                       [] v = "power" -> "pow_power"
                                       [] v = "fans" -> "fan_thermal"
                                       [] v = "telemetry" -> "tel_power",
                              !.ch = MainID, !.conn = conn],
         coll |-> [coll[w] EXCEPT !.locked = IF v = "sensors" THEN TRUE ELSE @]]
    ELSE IF v = "power" THEN
        [wk |-> [wk[w] EXCEPT !.pc = "gc_lock", !.conn = 0, !.failed = TRUE],
         coll |-> coll[w]]
    ELSE
        [wk |-> Returned(wk[w], TRUE), coll |-> coll[w]]

\* c.mutex.Lock() on the path of GetMainChassis: at its entry (then the list
\* call is issued), at the entry of reconnect, and in the Close that
\* reconnect calls (then Logout, Unlock, and connect is issued).
GetMainChassis(w) ==
    /\ proc = "running"
    /\ wk[w].pc \in {"gmc_lock", "reconnect", "reconnect_close"}
    /\ LET c == ClientOf(w) IN
       /\ sess[c].mutex = NoHolder
       /\ IF wk[w].pc = "gmc_lock"
          THEN /\ sess' = [sess EXCEPT ![c].mutex = w]
               /\ wk' = [wk EXCEPT ![w].pc = "gmc_list", ![w].conn = sess[c].handle]
               /\ UNCHANGED conns
          ELSE IF wk[w].pc = "reconnect"
          THEN /\ sess' = [sess EXCEPT ![c].mutex = w]
               /\ wk' = [wk EXCEPT ![w].pc =
                           IF sess[c].handle # 0 THEN "reconnect_close"
                           ELSE "reconnect_connect"]
               /\ UNCHANGED conns
          ELSE /\ conns' = [conns EXCEPT ![sess[c].handle].logouts = @ + 1]
               /\ sess' = [sess EXCEPT ![c].mutex = NoHolder]
               /\ wk' = [wk EXCEPT ![w].pc = "reconnect_connect"]
    /\ UNCHANGED <<proc, req, coll, clients, regMutex, errChan, closer, faults>>

\* GetMainChassis after c.Service.Chassis() came back with the outcome o
\* (the first call, or the call retried after a reconnect): it goes to
\* reconnect, or it returns (found or not) and its deferred Unlock runs.
chassisListReturn(w, o) ==
    LET c == ClientOf(w)
        res == listResult(o, wk[w].pc = "gmc_retry")
        nxt == afterChassis(w, res = "found", wk[w].conn)
    IN /\ Inject(o.err # None)
       /\ IF res = "reconnect"
          THEN /\ wk' = [wk EXCEPT ![w].pc = "reconnect", ![w].failed = TRUE]
               /\ UNCHANGED <<sess, conns, coll>>
          ELSE /\ (w[2] = "sensors" /\ res = "found") => ~coll[w].locked
               /\ sess' = [sess EXCEPT ![c].mutex = NoHolder]
               /\ wk' = [wk EXCEPT ![w] = nxt.wk]
               /\ coll' = [coll EXCEPT ![w] = nxt.coll]
               /\ UNCHANGED conns

\* A remote call on the path of GetMainChassis returns: the chassis-list call,
\* the connect of reconnect, or the list call retried after a reconnect.  When
\* GetMainChassis returns, its deferred Unlock runs and the collector goes on.
GetMainChassisReturn(w) ==
    /\ proc = "running"
    /\ wk[w].pc \in {"gmc_list", "gmc_retry", "reconnect_connect"}
    /\ LET c == ClientOf(w) IN
       IF wk[w].pc = "reconnect_connect"
       THEN \E ok \in BOOLEAN :
              /\ ok => Len(conns) < MaxConn
              /\ Inject(~ok /\ Len(conns) < MaxConn)
              /\ IF ok
                 THEN /\ conns' = Append(conns, [host |-> sess[c].host, logouts |-> 0])
                      /\ sess' = [sess EXCEPT ![c].handle = Len(conns) + 1]
                      /\ wk' = [wk EXCEPT ![w].pc = "gmc_retry",
                                          ![w].conn = Len(conns) + 1]
                      /\ UNCHANGED coll
                 ELSE /\ sess' = [sess EXCEPT ![c].mutex = NoHolder]
                      /\ wk' = [wk EXCEPT ![w] = afterChassis(w, FALSE, 0).wk]
                      /\ UNCHANGED <<conns, coll>>
       ELSE \E o \in ListOutcomes(HostOfConn(wk[w].conn)) : chassisListReturn(w, o)
    /\ UNCHANGED <<proc, req, clients, regMutex, errChan, closer>>

\* A GetChassis that issues the chassis-list call without the client's mutex.
GetChassisUnlocked(w) ==
    /\ proc = "running"
    /\ wk[w].pc = "gc_lock"
    /\ wk' = [wk EXCEPT ![w].pc = "gc_list", ![w].conn = sess[ClientOf(w)].handle]
    /\ UNCHANGED <<proc, req, coll, clients, regMutex, sess, conns, errChan, closer, faults>>

\* Client.GetChassis: lock the client and issue the chassis-list call.
GetChassis(w) ==
    /\ proc = "running"
    /\ wk[w].pc = "gc_lock"
    /\ LET c == ClientOf(w) IN
       /\ sess[c].mutex = NoHolder
       /\ sess' = [sess EXCEPT ![c].mutex = w]
       /\ wk' = [wk EXCEPT ![w].pc = "gc_list", ![w].conn = sess[c].handle]
    /\ UNCHANGED <<proc, req, coll, clients, regMutex, conns, errChan, closer, faults>>

\* ---------------------------------------------------------- collectors

\* The start of the Update of the sensors, power, fans and telemetry
\* collectors: lock, replace the snapshot by an empty one, unlock, and call
\* the chassis lookup (GetChassisWithID("1") is GetMainChassis).
clearReadings(w) ==
    /\ wk[w].pc = "start"
    /\ ~coll[w].locked
    /\ coll' = [coll EXCEPT ![w].readings = NewReadings(w[2])]
    /\ wk' = [wk EXCEPT ![w].pc = "gmc_lock", ![w].stored = {}]

\* SystemCollector.Update: the systems are requested first, through
\* client.Service, without the client's mutex.
systemUpdate(w) ==
    /\ proc = "running"
    /\ w[2] = "system"
    /\ wk[w].pc = "start"
    /\ wk' = [wk EXCEPT ![w].pc = "sys_systems", ![w].conn = sess[ClientOf(w)].handle,
                        ![w].stored = {}]
    /\ UNCHANGED <<proc, req, coll, clients, regMutex, sess, conns, errChan, closer, faults>>

\* Service.Systems() returns.  On an error Update returns at once; systems[0]
\* of an empty list panics; otherwise the collector locks its mutex, replaces
\* the snapshot by an empty one and requests the processors.
systemsReturn(w) ==
    /\ proc = "running"
    /\ wk[w].pc = "sys_systems"
    /\ \E o \in SystemsOutcomes(HostOfConn(wk[w].conn)) :
         /\ Inject(o.err # None \/ Len(o.items) = 0)
         /\ IF o.err # None
            THEN /\ wk' = [wk EXCEPT ![w] = Returned(@, TRUE)]
                 /\ UNCHANGED <<proc, coll>>
            ELSE IF Len(o.items) = 0
            THEN /\ proc' = "crashed"
                 /\ UNCHANGED <<wk, coll>>
            ELSE /\ ~coll[w].locked
                 /\ coll' = [coll EXCEPT ![w].readings = NewReadings("system"),
                                         ![w].locked = TRUE]
                 /\ wk' = [wk EXCEPT ![w].pc = "sys_procs", ![w].items = o.items]
                 /\ UNCHANGED proc
    /\ UNCHANGED <<req, clients, regMutex, sess, conns, errChan, closer>>

\* system.Processors() returns; the rest of SystemCollector.Update.
processorsReturn(w) ==
    /\ proc = "running"
    /\ wk[w].pc = "sys_procs"
    /\ \E out \in ReadOutcomes :
         /\ Inject(out = "error")
         /\ IF out = "error"
            THEN /\ coll' = [coll EXCEPT ![w].locked = FALSE]
                 /\ wk' = [wk EXCEPT ![w] = Returned(@, TRUE)]
            ELSE LET fill == systemFill(wk[w].items[1], ProcessorsOf(HostOfConn(wk[w].conn)),
                                        coll[w].firstCPUID)
                 IN /\ coll' = [coll EXCEPT ![w].readings = fill.readings,
                                            ![w].firstCPUID = fill.firstCPUID,
                                            ![w].locked = FALSE]
                    /\ wk' = [wk EXCEPT ![w] = [Returned(@, FALSE) EXCEPT
                                                  !.stored = DOMAIN fill.readings]]
    /\ UNCHANGED <<proc, req, clients, regMutex, sess, conns, errChan, closer>>

\* SensorCollector.Update up to the chassis lookup.
sensorsUpdate(w) ==
    /\ proc = "running"
    /\ w[2] = "sensors"
    /\ clearReadings(w)
    /\ UNCHANGED <<proc, req, clients, regMutex, sess, conns, errChan, closer, faults>>

\* chassis.Thermal() returns in SensorCollector.Update (the collector's mutex
\* is held): the temperatures are stored and the power read is issued.
sensorsThermalReturn(w) ==
    /\ proc = "running"
    /\ wk[w].pc = "sen_thermal"
    /\ \E out \in ReadOutcomes :
         /\ Inject(out = "error")
         /\ IF out = "error"
            THEN /\ coll' = [coll EXCEPT ![w].locked = FALSE]
                 /\ wk' = [wk EXCEPT ![w] = Returned(@, TRUE)]
            ELSE LET rd == tempFill(coll[w].readings,
                                    ThermalOf(HostOfConn(wk[w].conn), wk[w].ch).Temperatures, 1)
                 IN /\ coll' = [coll EXCEPT ![w].readings = rd]
                    /\ wk' = [wk EXCEPT ![w].pc = "sen_power", ![w].stored = DOMAIN rd]
    /\ UNCHANGED <<proc, req, clients, regMutex, sess, conns, errChan, closer>>

\* A sensors Update that gives up the temperatures when the power read fails.
sensorsPowerReturnDropsAll(w) ==
    /\ proc = "running"
    /\ wk[w].pc = "sen_power"
    /\ \E out \in ReadOutcomes :
         /\ Inject(out = "error")
         /\ IF out = "error"
            THEN /\ coll' = [coll EXCEPT ![w].readings = EmptyMap, ![w].locked = FALSE]
                 /\ wk' = [wk EXCEPT ![w] = Returned(@, TRUE)]
            ELSE LET rd == voltFill(coll[w].readings,
                                    PowerOf(HostOfConn(wk[w].conn), wk[w].ch).Voltages, 1)
                 IN /\ coll' = [coll EXCEPT ![w].readings = rd, ![w].locked = FALSE]
                    /\ wk' = [wk EXCEPT ![w] = [Returned(@, FALSE) EXCEPT !.stored = DOMAIN rd]]
    /\ UNCHANGED <<proc, req, clients, regMutex, sess, conns, errChan, closer>>

\* chassis.Power() returns in SensorCollector.Update: the voltages are
\* stored; on an error the temperatures are kept.  Update returns nil.
sensorsPowerReturn(w) ==
    /\ proc = "running"
    /\ wk[w].pc = "sen_power"
    /\ \E out \in ReadOutcomes :
         /\ Inject(out = "error")
         /\ IF out = "error"
            THEN /\ coll' = [coll EXCEPT ![w].locked = FALSE]
                 /\ wk' = [wk EXCEPT ![w] = Returned(@, TRUE)]
            ELSE LET rd == voltFill(coll[w].readings,
                                    PowerOf(HostOfConn(wk[w].conn), wk[w].ch).Voltages, 1)
                 IN /\ coll' = [coll EXCEPT ![w].readings = rd, ![w].locked = FALSE]
                    /\ wk' = [wk EXCEPT ![w] = [Returned(@, FALSE) EXCEPT !.stored = DOMAIN rd]]
    /\ UNCHANGED <<proc, req, clients, regMutex, sess, conns, errChan, closer>>

\* FansCollector.Update up to the chassis lookup.
fansUpdate(w) ==
    /\ proc = "running"
    /\ w[2] = "fans"
    /\ clearReadings(w)
    /\ UNCHANGED <<proc, req, clients, regMutex, sess, conns, errChan, closer, faults>>

\* chassis.Thermal() returns in FansCollector.Update; the fans are stored
\* under the collector's mutex.
fansThermalReturn(w) ==
    /\ proc = "running"
    /\ wk[w].pc = "fan_thermal"
    /\ \E out \in ReadOutcomes :
         /\ Inject(out = "error")
         /\ IF out = "error"
            THEN /\ wk' = [wk EXCEPT ![w] = Returned(@, TRUE)]
                 /\ UNCHANGED coll
            ELSE LET rd == fanFill(coll[w].readings,
                                   ThermalOf(HostOfConn(wk[w].conn), wk[w].ch).Fans, 1)
                 IN /\ ~coll[w].locked
                    /\ coll' = [coll EXCEPT ![w].readings = rd]
                    /\ wk' = [wk EXCEPT ![w] = [Returned(@, FALSE) EXCEPT !.stored = DOMAIN rd]]
    /\ UNCHANGED <<proc, req, clients, regMutex, sess, conns, errChan, closer>>

\* TelemetryCollector.Update up to the chassis lookup.
telemetryUpdate(w) ==
    /\ proc = "running"
    /\ w[2] = "telemetry"
    /\ clearReadings(w)
    /\ UNCHANGED <<proc, req, clients, regMutex, sess, conns, errChan, closer, faults>>

\* chassis.Power() returns in TelemetryCollector.Update; the first positive
\* PowerConsumedWatts is stored under the collector's mutex.
telemetryPowerReturn(w) ==
    /\ proc = "running"
    /\ wk[w].pc = "tel_power"
    /\ \E out \in ReadOutcomes :
         /\ Inject(out = "error")
         /\ IF out = "error"
            THEN /\ wk' = [wk EXCEPT ![w] = Returned(@, TRUE)]
                 /\ UNCHANGED coll
            ELSE LET watts == telemetryFill(coll[w].readings[WattsKey],
                                            PowerOf(HostOfConn(wk[w].conn), wk[w].ch).PowerControl, 1)
                 IN /\ ~coll[w].locked
                    /\ coll' = [coll EXCEPT ![w].readings = [k \in {WattsKey} |-> watts]]
                    /\ wk' = [wk EXCEPT ![w] = [Returned(@, FALSE) EXCEPT
                                                  !.stored = IF watts > 0 THEN {WattsKey} ELSE {}]]
    /\ UNCHANGED <<proc, req, clients, regMutex, sess, conns, errChan, closer>>

\* PowerCollector.Update up to the chassis lookup.
powerUpdate(w) ==
    /\ proc = "running"
    /\ w[2] = "power"
    /\ clearReadings(w)
    /\ UNCHANGED <<proc, req, clients, regMutex, sess, conns, errChan, closer, faults>>

\* A PowerCollector whose PSU counter is kept from one Update to the next
\* instead of starting at 0.
powerReturnCountKept(w) ==
    /\ proc = "running"
    /\ wk[w].pc = "pow_power"
    /\ \E out \in ReadOutcomes :
         /\ Inject(out = "error")
         /\ IF out = "error"
            THEN /\ wk' = [wk EXCEPT ![w].pc = "gc_lock", ![w].conn = 0, ![w].ch = "",
                                     ![w].failed = TRUE]
                 /\ UNCHANGED coll
            ELSE LET fill == psuFill(coll[w].readings,
                                     PowerOf(HostOfConn(wk[w].conn), wk[w].ch).PowerSupplies,
                                     1, Cardinality(DOMAIN wk[w].pre))
                 IN /\ ~coll[w].locked
                    /\ coll' = [coll EXCEPT ![w].readings = fill.readings]
                    /\ wk' = [wk EXCEPT ![w] = [Returned(@, wk[w].failed) EXCEPT
                                                  !.stored = DOMAIN fill.readings]]
    /\ UNCHANGED <<proc, req, clients, regMutex, sess, conns, errChan, closer>>

\* chassis.Power() of the primary chassis returns in PowerCollector.Update:
\* on an error tryAlternativeChassis is called (it starts with GetChassis);
\* otherwise the power supplies are stored under the collector's mutex.
powerReturn(w) ==
    /\ proc = "running"
    /\ wk[w].pc = "pow_power"
    /\ \E out \in ReadOutcomes :
         /\ Inject(out = "error")
         /\ IF out = "error"
            THEN /\ wk' = [wk EXCEPT ![w].pc = "gc_lock", ![w].conn = 0, ![w].ch = "",
                                     ![w].failed = TRUE]
                 /\ UNCHANGED coll
            ELSE LET fill == psuFill(coll[w].readings,
                                     PowerOf(HostOfConn(wk[w].conn), wk[w].ch).PowerSupplies,
                                     1, 0)
                 IN /\ ~coll[w].locked
                    /\ coll' = [coll EXCEPT ![w].readings = fill.readings]
                    /\ wk' = [wk EXCEPT ![w] = [Returned(@, wk[w].failed) EXCEPT
                                                  !.stored = DOMAIN fill.readings]]
    /\ UNCHANGED <<proc, req, clients, regMutex, sess, conns, errChan, closer>>

\* A loop header that skips no entry.
nextEntry(items, i) == i + 1

\* The loop header of tryAlternativeChassis: the index of the next entry
\* after i that is not the storage backplane, or Len(items) + 1.
RECURSIVE nextCandidate(_, _)
nextCandidate(items, i) ==
    IF i + 1 > Len(items) THEN Len(items) + 1
    ELSE IF items[i + 1] = DenyID THEN nextCandidate(items, i + 1)
    ELSE i + 1

\* tryAlternativeChassis going to its next iteration after entry i: the
\* power read of the next candidate is issued, or the loop is over, and the
\* function returns (an error when the snapshot is empty) and its deferred
\* unlocks run.  rec and c are the goroutine and the collector at that point.
scanNext(rec, c, items, i) ==
    LET j == nextCandidate(items, i) IN
    IF j <= Len(items)
    THEN [wk |-> [rec EXCEPT !.pc = "alt_power", !.items = items, !.idx = j,
                             !.ch = items[j]],
          coll |-> c,
          err |-> FALSE]
    ELSE [wk |-> Returned(rec, TRUE),
          coll |-> [c EXCEPT !.locked = FALSE],
          err |-> DOMAIN c.readings = {}]

\* The head of tryAlternativeChassis once client.GetChassis() came back with
\* the outcome o: any error is returned ("failed to get any chassis") and
\* goes to the error channel; without an error the loop over o.items starts.
scanStart(w, o) ==
    LET nxt == scanNext(wk[w], coll[w], o.items, 0) IN
    /\ Inject(o.err # None)
    /\ IF o.err # None
       THEN /\ wk' = [wk EXCEPT ![w] = Returned(@, TRUE)]
            /\ errChan' = [errChan EXCEPT ![w[1]] = Append(@, w[2])]
            /\ UNCHANGED coll
       ELSE /\ wk' = [wk EXCEPT ![w] = nxt.wk]
            /\ coll' = [coll EXCEPT ![w] = nxt.coll]
            /\ errChan' = IF nxt.err
                          THEN [errChan EXCEPT ![w[1]] = Append(@, w[2])]
                          ELSE errChan

\* Client.GetChassis returns (the chassis list and the error as they came),
\* in tryAlternativeChassis: an error is returned to collectTarget, which
\* puts it on the error channel; otherwise the scan starts.
GetChassisReturn(w) ==
    /\ proc = "running"
    /\ wk[w].pc = "gc_list"
    /\ \E o \in ListOutcomes(HostOfConn(wk[w].conn)) : scanStart(w, o)
    /\ sess' = [sess EXCEPT ![ClientOf(w)].mutex = NoHolder]
    /\ UNCHANGED <<proc, req, clients, regMutex, conns, closer>>

\* chassis.Power() returns in the scan of tryAlternativeChassis: on an error
\* the scan goes on; otherwise the collector's mutex is to be locked.
altPowerReturn(w) ==
    /\ proc = "running"
    /\ wk[w].pc = "alt_power"
    /\ \E out \in ReadOutcomes :
         /\ Inject(out = "error")
         /\ LET nxt == scanNext(wk[w], coll[w], wk[w].items, wk[w].idx) IN
            IF out = "error"
            THEN /\ wk' = [wk EXCEPT ![w] = nxt.wk]
                 /\ coll' = [coll EXCEPT ![w] = nxt.coll]
                 /\ errChan' = IF nxt.err
                               THEN [errChan EXCEPT ![w[1]] = Append(@, w[2])]
                               ELSE errChan
            ELSE /\ wk' = [wk EXCEPT ![w].pc = "alt_lock"]
                 /\ UNCHANGED <<coll, errChan>>
    /\ UNCHANGED <<proc, req, clients, regMutex, sess, conns, closer>>

\* tryAlternativeChassis, the body of an iteration after a successful power
\* read: c.mutex.Lock(), defer c.mutex.Unlock() (which runs when the function
\* returns, not at the end of the iteration), the loop over the power
\* supplies, and the return when psuCount > 0.
tryAlternativeChassis(w) ==
    /\ proc = "running"
    /\ wk[w].pc = "alt_lock"
    /\ ~coll[w].locked
    /\ LET fill == altPsuFill(coll[w].readings,
                              PowerOf(HostOfConn(wk[w].conn), wk[w].ch).PowerSupplies, 1, 0)
           held == [coll[w] EXCEPT !.readings = fill.readings, !.locked = TRUE]
           rec == [wk[w] EXCEPT !.stored = @ \cup DOMAIN fill.readings]
           nxt == scanNext(rec, held, wk[w].items, wk[w].idx)
       IN IF fill.psuCount > 0
          THEN /\ wk' = [wk EXCEPT ![w] = Returned(rec, wk[w].failed)]
               /\ coll' = [coll EXCEPT ![w] = [held EXCEPT !.locked = FALSE]]
               /\ UNCHANGED errChan
          ELSE /\ wk' = [wk EXCEPT ![w] = nxt.wk]
               /\ coll' = [coll EXCEPT ![w] = nxt.coll]
               /\ errChan' = IF nxt.err
                             THEN [errChan EXCEPT ![w[1]] = Append(@, w[2])]
                             ELSE errChan
    /\ UNCHANGED <<proc, req, clients, regMutex, sess, conns, closer, faults>>

\* ------------------------------------------------------- specification

\* The steps of the Update goroutine w.
WorkerNext(w) ==
    \/ systemUpdate(w)
    \/ systemsReturn(w)
    \/ processorsReturn(w)
    \/ sensorsUpdate(w)
    \/ sensorsThermalReturn(w)
    \/ sensorsPowerReturn(w)
    \/ powerUpdate(w)
    \/ powerReturn(w)
    \/ GetChassisReturn(w)
    \/ altPowerReturn(w)
    \/ tryAlternativeChassis(w)
    \/ fansUpdate(w)
    \/ fansThermalReturn(w)
    \/ telemetryUpdate(w)
    \/ telemetryPowerReturn(w)
    \/ GetMainChassis(w)
    \/ GetMainChassisReturn(w)
    \/ GetChassis(w)

\* The steps of the handler goroutine r up to its answer.
HandlerNext(r) ==
    \/ \E p \in Params : metricsHandler(r, p)
    \/ getClient(r)
    \/ connectReturn(r)
    \/ collectTarget(r)
    \/ waitGroupWait(r)
    \/ collectorCollect(r)

ShutdownNext == closeBegin \/ closeClient \/ closeReturn \/ exit

\* One request: its goroutines interleave freely.
Next ==
    \/ \E r \in Reqs : HandlerNext(r)
    \/ \E w \in Workers : WorkerNext(w)

Spec == Init /\ [][Next]_vars

\* The same under the scheduler's guarantee that of the goroutines that can
\* take a step one does (remote calls return, runnable goroutines run).
SpecFair == Spec /\ WF_vars(Next)

\* Two requests at a time.  Of the five Update goroutines of one request the
\* scheduler runs the earliest one that has not returned (they are started in
\* this order); the goroutines of the two requests interleave freely.
InitOrch ==
    /\ proc = "running"
    /\ req = [r \in Reqs |-> IdleReq]
    /\ wk = [w \in Workers |-> IdleWorker(w[2])]
    /\ coll = [w \in Workers |-> NewCollector(w[2])]
    /\ clients = EmptyMap
    /\ regMutex = None
    /\ sess = << >>
    /\ conns = << >>
    /\ errChan = [r \in Reqs |-> << >>]
    /\ closer = "idle"
    /\ faults = OrchFaults

Earlier ==
    [v \in Variants |->
        {Collectors[i] : i \in {k \in 1..Len(Collectors) :
                                  \E j \in (k + 1)..Len(Collectors) : Collectors[j] = v}}]

Turn(w) == \A v \in Earlier[w[2]] : wk[<<w[1], v>>].pc = "done"

\* The steps of the Update goroutine w when its turn has come.
OrderedNext(w) ==
    \/ systemUpdate(w) /\ Turn(w)
    \/ systemsReturn(w) /\ Turn(w)
    \/ processorsReturn(w) /\ Turn(w)
    \/ sensorsUpdate(w) /\ Turn(w)
    \/ sensorsThermalReturn(w) /\ Turn(w)
    \/ sensorsPowerReturn(w) /\ Turn(w)
    \/ powerUpdate(w) /\ Turn(w)
    \/ powerReturn(w) /\ Turn(w)
    \/ GetChassisReturn(w) /\ Turn(w)
    \/ altPowerReturn(w) /\ Turn(w)
    \/ tryAlternativeChassis(w) /\ Turn(w)
    \/ fansUpdate(w) /\ Turn(w)
    \/ fansThermalReturn(w) /\ Turn(w)
    \/ telemetryUpdate(w) /\ Turn(w)
    \/ telemetryPowerReturn(w) /\ Turn(w)
    \/ GetMainChassis(w) /\ Turn(w)
    \/ GetMainChassisReturn(w) /\ Turn(w)
    \/ GetChassis(w) /\ Turn(w)

NextOrch ==
    \/ \E r \in Reqs : HandlerNext(r)
    \/ \E r \in Reqs : handlerReturn(r)
    \/ \E w \in Workers : OrderedNext(w)

SpecOrch == InitOrch /\ [][NextOrch]_vars

\* The same, with the guarantee for the second request alone that its
\* goroutines run when they can and its remote calls return; the remote
\* calls of the first request may take for ever.
ScrapeNext(r) ==
    \/ HandlerNext(r)
    \/ handlerReturn(r)
    \/ \E v \in Variants : OrderedNext(<<r, v>>)

SpecOrchFair == SpecOrch /\ WF_vars(ScrapeNext("r2"))

\* One request at a time, and the shutdown.
NextShutdown ==
    \/ \E r \in Reqs : HandlerNext(r)
    \/ \E r \in Reqs : handlerReturn(r)
    \/ \E w \in Workers : OrderedNext(w)
    \/ ShutdownNext

SpecShutdown == Init /\ [][NextShutdown]_vars

\* ------------------------------------------- a collector and its callers
\* The Collector interface as a component: a caller holds a connected client
\* and one instance of each collector, calls Update on an instance again and
\* again (one Update at a time), and another goroutine calls Collect at any
\* moment.  A run exercises one of the five instances.

Harness == "r1"

InitCollector ==
    /\ proc = "running"
    /\ \E h \in Hosts :
         /\ req = [r \in Reqs |->
                     IF r = Harness
                     THEN [IdleReq EXCEPT !.pc = "harness", !.host = h, !.client = 1]
                     ELSE [IdleReq EXCEPT !.pc = "off"]]
         /\ clients = Put(EmptyMap, h, 1)
         /\ sess = <<[host |-> h, handle |-> 1, mutex |-> NoHolder]>>
         /\ conns = <<[host |-> h, logouts |-> 0]>>
    /\ wk = [w \in Workers |-> IdleWorker(w[2])]
    /\ coll = [w \in Workers |-> NewCollector(w[2])]
    /\ regMutex = None
    /\ errChan = [r \in Reqs |-> << >>]
    /\ closer = "idle"
    /\ faults = MaxFaults

\* A caller calls Update on the collector of w.
harnessUpdate(w) ==
    /\ proc = "running"
    /\ w[1] = Harness
    /\ req[Harness].pc = "harness"
    /\ ~InUpdate(w)
    /\ \A v \in Variants \ {w[2]} : wk[<<Harness, v>>].pc = "idle"
    /\ wk' = [wk EXCEPT ![w] = [IdleWorker(w[2]) EXCEPT !.pc = "start",
                                                        !.pre = coll[w].readings]]
    /\ errChan' = [errChan EXCEPT ![Harness] = << >>]
    /\ UNCHANGED <<proc, req, coll, clients, regMutex, sess, conns, closer, faults>>

\* A caller calls Collect on the collector of w: the samples of the snapshot
\* as it is, read under the collector's mutex.
harnessCollect(w) ==
    /\ proc = "running"
    /\ w[1] = Harness
    /\ req[Harness].pc = "harness"
    /\ ~coll[w].locked
    /\ req' = [req EXCEPT ![Harness].stream =
                 CollectSamples(w[2], coll[w].readings, coll[w].firstCPUID)]
    /\ UNCHANGED <<proc, wk, coll, clients, regMutex, sess, conns, errChan, closer, faults>>

NextCollector ==
    \/ \E w \in Workers : harnessUpdate(w)
    \/ \E w \in Workers : harnessCollect(w)
    \/ \E w \in Workers : WorkerNext(w)

SpecCollector == InitCollector /\ [][NextCollector]_vars

\* ------------------------------------------------- the chassis lookups
\* The lookups of the client as functions of what the chassis-list call
\* returned: a caller asks for the chassis with some ID, by GetChassisWithID
\* or (for "1") by GetMainChassis, and the list call returns some list of
\* at most MaxList entries together with some error or none.

LookupIDs == {MainID, "B", "C"}
AskedIDs == LookupIDs \cup {"Z"}
ListErrors == {None, "transport", "auth", "partial"}

RECURSIVE ListsUpTo(_)
ListsUpTo(n) ==
    IF n = 0 THEN {<< >>}
    ELSE LET shorter == ListsUpTo(n - 1) IN
         shorter \cup {Append(l, x) : l \in {m \in shorter : Len(m) = n - 1}, x \in LookupIDs}

Asker == <<Harness, "sensors">>

InitLookup ==
    /\ proc = "running"
    /\ req = [r \in Reqs |->
                IF r = Harness
                THEN [IdleReq EXCEPT !.pc = "harness", !.host = T1, !.client = 1]
                ELSE [IdleReq EXCEPT !.pc = "off"]]
    /\ clients = Put(EmptyMap, T1, 1)
    /\ sess = <<[host |-> T1, handle |-> 1, mutex |-> NoHolder]>>
    /\ conns = <<[host |-> T1, logouts |-> 0]>>
    /\ \E id \in AskedIDs, l \in ListsUpTo(MaxList) :
         wk = [w \in Workers |->
                 IF w = Asker
                 THEN [IdleWorker(w[2]) EXCEPT !.pc = "lookup", !.ch = id, !.items = l]
                 ELSE IdleWorker(w[2])]
    /\ coll = [w \in Workers |-> NewCollector(w[2])]
    /\ regMutex = None
    /\ errChan = [r \in Reqs |-> << >>]
    /\ closer = "idle"
    /\ faults = MaxFaults

\* The caller's record once the lookup has dealt with the list call's
\* answer: where it goes on (res) and the entry it got (its index).
lookedUp(rec, res, id) ==
    [rec EXCEPT !.pc = res,
                !.idx = IF res = "found" THEN findChassis(rec.items, id, 1) ELSE 0,
                !.failed = (res = "error")]

\* GetChassisWithID(id) with the list call (the first one, or the retried
\* one) returning the caller's list and the error e.
lookupByID(w, e, retry) ==
    /\ wk[w].pc = "lookup"
    /\ wk' = [wk EXCEPT ![w] =
                lookedUp(@, GetChassisWithID([err |-> e, items |-> wk[w].items],
                                             retry, wk[w].ch), wk[w].ch)]
    /\ UNCHANGED <<proc, req, coll, clients, regMutex, sess, conns, errChan, closer, faults>>

\* GetMainChassis() with the list call returning the caller's list and the
\* error e.
lookupMain(w, e, retry) ==
    /\ wk[w].pc = "lookup"
    /\ wk' = [wk EXCEPT ![w] =
                lookedUp(@, listResult([err |-> e, items |-> wk[w].items], retry), MainID)]
    /\ UNCHANGED <<proc, req, coll, clients, regMutex, sess, conns, errChan, closer, faults>>

harnessGetChassisWithID ==
    \E e \in ListErrors, retry \in BOOLEAN : lookupByID(Asker, e, retry)

harnessGetMainChassis ==
    \E e \in ListErrors, retry \in BOOLEAN : lookupMain(Asker, e, retry)

NextLookup ==
    \/ harnessGetChassisWithID
    \/ harnessGetMainChassis

SpecLookup == InitLookup /\ [][NextLookup]_vars

\* ------------------------------------------------------------- properties

\* The chassis-list calls, which Client.GetMainChassis and Client.GetChassis
\* make, and the other remote reads, which the collectors make themselves.
ListPcs == {"gmc_list", "gmc_retry", "gc_list"}
SubReadPcs == ReadPcs \ ListPcs

\* C1: when the first chassis-list call of GetMainChassis fails with an
\* authentication error, GetMainChassis reconnects (one logout of the old
\* handle), retries and returns the retried result.  For that the goroutine
\* must get the client's mutex in reconnect, so it must not be the one that
\* holds it.
C1_ReconnectReturns ==
    \A w \in Workers :
        wk[w].pc = "reconnect" => sess[ClientOf(w)].mutex # w

\* C2: whatever the remote side answers, a scrape comes to its answer: the
\* process never crashes, and as long as a request is not answered some
\* goroutine can take a step.
C2_ScrapeCompletes ==
    /\ proc # "crashed"
    /\ (\A r \in Reqs : req[r].pc \in {"off", "responded"}) \/ ENABLED Next

\* The hosts a sample tells by its value or labels that it was read from.
SampleOrigins(s) ==
    IF s.metric \in {"ipmi_temperature_celsius", "ipmi_fan_speed_rpm",
                     "ipmi_psu_ac_input_power_watts", "ipmi_psu_dc_output_power_watts",
                     "ipmi_telemetry_power_consumption_watts"}
    THEN {OriginOf(s.value)}
    ELSE IF s.metric = "ipmi_voltage_volts" THEN {OriginOf(s.value \div 100)}
    ELSE IF s.metric = "ipmi_memory_health" THEN {OriginOf(s.labels[1])}
    ELSE IF s.metric = "ipmi_cpu_health" THEN {IF s.labels[2] = "X" THEN T1 ELSE T2}
    ELSE {}

\* C3: with two targets scraped at the same time, every remote read of a
\* request goes over a connection to that request's target, every reading in
\* its collectors and every sample in its stream comes from that target.
C3_Isolation ==
    /\ \A w \in Workers :
         wk[w].conn # 0 => HostOfConn(wk[w].conn) = req[w[1]].host
    /\ \A r \in Reqs : \A s \in req[r].stream :
         SampleOrigins(s) \subseteq {req[r].host}
    /\ \A w \in Workers :
         \A s \in CollectSamples(w[2], coll[w].readings, coll[w].firstCPUID) :
            SampleOrigins(s) \subseteq {req[w[1]].host}

\* Two requests for different targets, one emitting its samples while a
\* remote read of the other is in flight.
C3_Witness ==
    \E r1, r2 \in Reqs :
        /\ req[r1].host = T1 /\ req[r2].host = T2
        /\ req[r1].pc = "collect" /\ req[r1].stream # {}
        /\ \E v \in Variants : InFlight(<<r2, v>>)

\* C4: the registry holds one client per hostname, every request holds the
\* client registered for its hostname, and a connect is made only with the
\* registry locked and no client registered for the hostname.
C4_OneSessionPerHost ==
    /\ \A i, j \in DOMAIN sess : sess[i].host = sess[j].host => i = j
    /\ \A h \in DOMAIN clients : sess[clients[h]].host = h
    /\ \A r \in Reqs :
         req[r].client # 0 =>
            req[r].host \in DOMAIN clients /\ req[r].client = clients[req[r].host]
    /\ \A r \in Reqs :
         req[r].pc = "connecting" =>
            regMutex = r /\ req[r].host \notin DOMAIN clients

\* Two requests in progress for one hostname share the one client.
C4_Witness ==
    /\ req["r1"].client # 0
    /\ req["r1"].client = req["r2"].client
    /\ req["r1"].host = req["r2"].host
    /\ Len(sess) = 1

C7_FallbackScanCompletes ==
    \A w \in Workers :
        wk[w].pc = "alt_lock" => ~coll[w].locked

\* C8: when Update has returned after a failed read, every reading of the
\* snapshot was stored by that Update.
C8_FailEmpty ==
    \A w \in Workers :
        (wk[w].pc = "done" /\ wk[w].failed) =>
            \A k \in DOMAIN coll[w].readings :
                k \in wk[w].stored \/ IsEmptySnapshot(w[2], coll[w].readings)

\* C9: a request that arrives with an empty target is answered 400 in that
\* step, with no samples and no client, and nothing else changes.
C9_MissingTarget ==
    [][\A r \in Reqs :
         (req[r].pc = "idle" /\ req'[r].pc # "idle" /\ req'[r].host = << >>) =>
            /\ req'[r].pc = "responded"
            /\ req'[r].status = 400
            /\ req'[r].stream = {}
            /\ req'[r].client = 0
            /\ UNCHANGED <<proc, wk, coll, clients, regMutex, sess, conns, errChan>>]_vars

\* A request was answered 400.
C9_Witness ==
    \E r \in Reqs :
        /\ req[r].pc = "responded" /\ req[r].status = 400
        /\ req[r].stream = {} /\ clients = EmptyMap /\ conns = << >>

Statuses == {"", "OK", "Warning", "Critical", "anything-else"}

HealthTable(status) == CASE status = "" -> 2 [] status = "OK" -> 1 [] OTHER -> 0

\* The health values a collector of variant v holds, and the status texts
\* the host's resources of that variant carry.
HealthsHeld(v, rd) ==
    IF v = "telemetry" THEN {} ELSE {rd[k].health : k \in DOMAIN rd}

StatusesOf(v, h) ==
    LET ids == Range(ChassisList(h)) IN
    CASE v = "system" ->
           {ProcessorsOf(h)[i].Health : i \in DOMAIN ProcessorsOf(h)}
           \cup {SystemsOf(h)[1].MemHealth}
      [] v = "sensors" ->
           UNION {{t.Health : t \in Range(ThermalOf(h, id).Temperatures)}
                  \cup {x.Health : x \in Range(PowerOf(h, id).Voltages)} : id \in ids}
      [] v = "power" ->
           UNION {{x.Health : x \in Range(PowerOf(h, id).PowerSupplies)} : id \in ids}
      [] v = "fans" ->
           UNION {{f.Health : f \in Range(ThermalOf(h, id).Fans)} : id \in ids}
      [] OTHER -> {}

\* C10: each collector's health mapping gives 2, 1, 0, 0, 0 for "", "OK",
\* "Warning", "Critical", "anything-else", and every health value a collector
\* holds is the table's value of a status that its host reports.
C10_HealthMapping ==
    /\ \A s \in Statuses :
         /\ cpuHealthValue(s) = HealthTable(s)
         /\ memoryHealthValue(s) = HealthTable(s)
         /\ tempHealthValue(s) = HealthTable(s)
         /\ voltHealthValue(s) = HealthTable(s)
         /\ psuHealthValue(s) = HealthTable(s)
         /\ altPsuHealthValue(s) = HealthTable(s)
         /\ fanHealthValue(s) = HealthTable(s)
    /\ \A w \in Workers :
         req[w[1]].host \in Hosts =>
            HealthsHeld(w[2], coll[w].readings)
                \subseteq {HealthTable(s) : s \in StatusesOf(w[2], req[w[1]].host)}

\* The collectors of a request hold a 0, a 1 and a 2, the fans collector a 2.
C10_Witness ==
    \E r \in Reqs :
        /\ {0, 1, 2} \subseteq UNION {HealthsHeld(v, coll[<<r, v>>].readings) : v \in Variants}
        /\ 2 \in HealthsHeld("fans", coll[<<r, "fans">>].readings)

\* The snapshot that an Update of variant v leaves when none of its reads
\* against host h fails.
UnfailedSnapshot(v, h) ==
    CASE v = "system" -> systemFill(SystemsOf(h)[1], ProcessorsOf(h), "").readings
      [] v = "sensors" ->
           voltFill(tempFill(EmptyMap, ThermalOf(h, MainID).Temperatures, 1),
                    PowerOf(h, MainID).Voltages, 1)
      [] v = "power" -> psuFill(EmptyMap, PowerOf(h, MainID).PowerSupplies, 1, 0).readings
      [] v = "fans" -> fanFill(EmptyMap, ThermalOf(h, MainID).Fans, 1)
      [] v = "telemetry" ->
           [k \in {WattsKey} |-> telemetryFill(0, PowerOf(h, MainID).PowerControl, 1)]

\* C11: an Update none of whose reads failed leaves the same snapshot
\* whatever the collector held before, so a second Update against the same
\* backend leaves the snapshot of the first, with nothing added.
C11_UpdateIdempotent ==
    \A w \in Workers :
        (wk[w].pc = "done" /\ ~wk[w].failed) =>
            coll[w].readings = UnfailedSnapshot(w[2], req[w[1]].host)

\* A second Update has returned and the power collector holds what it held
\* before it, readings included.
C11_Witness ==
    LET w == <<Harness, "power">> IN
    /\ wk[w].pc = "done" /\ ~wk[w].failed
    /\ DOMAIN wk[w].pre # {}
    /\ coll[w].readings = wk[w].pre

\* C12: when the systems read fails or lists no system, the System
\* collector's Update returns with an empty snapshot, Collect emits nothing
\* for it, and the process goes on: it does not end while the Update is
\* handling the answer of the systems read.
C12_NoSystemsEmitNothing ==
    \A w \in Workers :
        w[2] = "system" =>
            /\ ~(proc = "crashed" /\ wk[w].pc = "sys_systems")
            /\ (wk[w].pc = "done" /\ wk[w].failed /\ req[w[1]].pc # "harness") =>
                  /\ IsEmptySnapshot("system", coll[w].readings)
                  /\ CollectSamples("system", coll[w].readings, coll[w].firstCPUID) = {}

\* C13: while the registry's mutex is held, no connection is being
\* established and no remote read is in flight.
C13_RegistryLockNotAcrossNetwork ==
    regMutex # None =>
        /\ \A r \in Reqs : req[r].pc # "connecting"
        /\ \A w \in Workers : ~InFlight(w)

\* C14: no connection handle is logged out twice, and a Session that is to
\* close its handle (in a reconnect, or in the Close of the orchestrator)
\* gets to do so: the Session's mutex, which Client.Close locks, is not held
\* by a goroutine that is itself waiting for that mutex in reconnect.
C14_LogoutExactlyOnce ==
    /\ \A h \in DOMAIN conns : conns[h].logouts <= 1
    /\ closer = "closing" =>
          \A h \in DOMAIN clients : \A w \in Workers :
              sess[clients[h]].mutex = w => wk[w].pc # "reconnect"

\* C15: when the Close of the orchestrator returns, the registry is empty
\* and every client has been logged out; and Close logs out one registered
\* client per iteration and nothing else, so a Close that finds the registry
\* empty logs out nothing.
C15_CloseEmptiesRegistry ==
    [][/\ (closer = "closing" /\ closer' = "closed") =>
            /\ clients' = EmptyMap
            /\ \A i \in DOMAIN sess : conns'[sess[i].handle].logouts = 1
       /\ (closer = "closing" /\ (conns' # conns \/ clients' # clients)) =>
            \E h \in DOMAIN clients :
                /\ clients' = [x \in (DOMAIN clients) \ {h} |-> clients[x]]
                /\ conns[sess[clients[h]].handle].logouts = 0
                /\ conns' = [conns EXCEPT ![sess[clients[h]].handle].logouts = 1]]_vars

\* Close has returned after closing the clients of two targets.
C15_Witness ==
    /\ closer = "closed"
    /\ clients = EmptyMap
    /\ Len(conns) = 2
    /\ \A h \in DOMAIN conns : conns[h].logouts = 1

\* The samples of the first n collectors of request r, in the order of
\* Collectors.
SamplesUpTo(r, n) ==
    UNION {CollectSamples(Collectors[j], coll[<<r, Collectors[j]>>].readings,
                          coll[<<r, Collectors[j]>>].firstCPUID) : j \in 1..n}

\* C16: a scrape starts five Update goroutines, one per collector and each
\* once, on the client of the request; Collect is called only when all five
\* have returned, and then in the order system, sensors, power, fans,
\* telemetry.
C16_JoinBeforeCollect ==
    /\ [](/\ Collectors = <<"system", "sensors", "power", "fans", "telemetry">>
          /\ Cardinality(Variants) = 5
          /\ \A r \in Reqs :
               /\ req[r].pc = "wait" => \A v \in Variants : wk[<<r, v>>].pc # "idle"
               /\ req[r].pc = "collect" =>
                     /\ \A v \in Variants : wk[<<r, v>>].pc = "done"
                     /\ req[r].stream = SamplesUpTo(r, req[r].idx - 1)
               /\ (req[r].pc = "responded" /\ req[r].client # 0) =>
                     /\ \A v \in Variants : wk[<<r, v>>].pc = "done"
                     /\ req[r].stream = SamplesUpTo(r, Len(Collectors))
          /\ \A w \in Workers :
               wk[w].conn # 0 => HostOfConn(wk[w].conn) = sess[req[w[1]].client].host)
    /\ [][\A w \in Workers :
            /\ wk[w].pc = "done" => wk'[w].pc = "done"
            /\ (wk[w].pc = "idle" /\ wk'[w].pc # "idle") =>
                  wk'[w].pc = "start" /\ req[w[1]].pc = "fanout"]_vars

\* The Collect of the third collector is next, after samples of the first two.
C16_Witness ==
    \E r \in Reqs :
        /\ req[r].pc = "collect" /\ req[r].idx = 3
        /\ req[r].stream # {}
        /\ \A v \in Variants : ~wk[<<r, v>>].failed

\* The goroutine positions inside GetMainChassis (GetChassisWithID("1") is GetMainChassis).
GmcPcs == {"gmc_lock", "gmc_list", "gmc_retry", "reconnect", "reconnect_close",
           "reconnect_connect"}

\* C17: an authentication error of the chassis-list call is followed by one
\* reconnect and one retry of the call.  For that the reconnect can start
\* as soon as nobody else holds the client's mutex.
C17_OneReconnectOneRetry ==
    \A w \in Workers :
        wk[w].pc = "reconnect" =>
            \/ ENABLED GetMainChassis(w)
            \/ \E x \in Workers \ {w} : sess[ClientOf(w)].mutex = x

\* C18: a call whose chassis-list read failed with an authentication error
\* returns, with the error of the failed reconnect when the reconnect fails:
\* the goroutine leaves GetMainChassis.
C18_ReconnectFailureReturned ==
    \A w \in Workers :
        (wk[w].pc = "reconnect") ~> (wk[w].pc \notin GmcPcs)

\* C19: in GetMainChassis (GetChassisWithID has the same code), a list call
\* that returns a partial-retrieval error together with at least one item is
\* tolerated: the call does not reconnect (the connection and the session
\* stay as they are), and the lookup runs over the returned items, so that
\* the call succeeds with chassis "1" exactly when "1" is among them and
\* fails otherwise.  A partial-retrieval error with no item has the effect
\* of a transport error: the call fails.
FirstReadPcs == {"sen_thermal", "pow_power", "fan_thermal", "tel_power"}

TransportOutcome == [err |-> "transport", items |-> << >>]

C20_GetChassisSamePolicy ==
    [][\A w \in Workers :
         wk[w].pc = "gc_list" =>
           \A o \in ListOutcomes(HostOfConn(wk[w].conn)) :
             (scanStart(w, o) /\ sess' = [sess EXCEPT ![ClientOf(w)].mutex = NoHolder]) =>
               /\ (o.err = "partial" /\ Len(o.items) > 0) =>
                     /\ wk'[w] = scanNext(wk[w], coll[w], o.items, 0).wk
                     /\ wk'[w].pc = "alt_power"
                     /\ wk'[w].items = o.items
               /\ (o.err = "auth") =>
                     /\ wk'[w].pc # "done"
                     /\ errChan' = errChan]_vars

\* C21: whatever list the chassis-list call obtained and whatever ID is
\* asked for, GetChassisWithID goes on to the lookup exactly when the call
\* returned no error or a partial-retrieval error with items (and not on a
\* retried call that failed); the lookup returns the first entry of the list
\* whose ID is the ID asked for, and fails when there is none, also when the
\* list is empty.  For the ID "1", GetChassisWithID and GetMainChassis do the
\* same with every answer of the list call, first or retried: the same
\* result, the same decision to reconnect.
Obtained(e, l, retry) == e = None \/ (e = "partial" /\ Len(l) > 0 /\ ~retry)

C21_LookupByID ==
    [][wk[Asker].pc = "lookup" =>
         LET l == wk[Asker].items
             id == wk[Asker].ch
         IN \A e \in ListErrors, retry \in BOOLEAN :
              /\ (lookupByID(Asker, e, retry) /\ Obtained(e, l, retry)) =>
                    IF \E k \in 1..Len(l) : l[k] = id
                    THEN /\ wk'[Asker].pc = "found"
                         /\ wk'[Asker].idx \in 1..Len(l)
                         /\ l[wk'[Asker].idx] = id
                         /\ \A k \in 1..(wk'[Asker].idx - 1) : l[k] # id
                    ELSE /\ wk'[Asker].pc = "error"
                         /\ wk'[Asker].failed
              /\ id = MainID =>
                    (lookupByID(Asker, e, retry) <=> lookupMain(Asker, e, retry))]_vars

\* A lookup of "B" in a list with two entries "B" behind another entry has
\* returned the first of the two.
C21_Witness ==
    /\ wk[Asker].pc = "found"
    /\ wk[Asker].ch = "B"
    /\ wk[Asker].items = <<"C", "B", "B">>
    /\ wk[Asker].idx = 2

\* C22: in the fallback scan of the power collector the power data of the
\* storage backplane chassis is never requested, wherever the chassis stands
\* in the list, and no reading of the power snapshot carries its values.
DeniedPSUs(h) ==
    LET psus == PowerOf(h, DenyID).PowerSupplies IN {psus[i] : i \in 1..Len(psus)}

C22_DenylistNeverQueried ==
    \A w \in Workers :
        /\ wk[w].pc \in {"alt_power", "alt_lock"} =>
              /\ wk[w].ch = wk[w].items[wk[w].idx]
              /\ wk[w].ch # DenyID
        /\ w[2] = "power" =>
              \A k \in DOMAIN coll[w].readings : \A h \in Hosts : \A p \in DeniedPSUs(h) :
                  /\ coll[w].readings[k].acPower # p.In
                  /\ coll[w].readings[k].dcPower # p.Out
                  /\ k # p.Name

\* The scan is past a storage backplane that stands in the middle of the
\* list, and has requested the power data of the chassis behind it.
C22_Witness ==
    \E w \in Workers :
        /\ wk[w].pc = "alt_power"
        /\ Len(wk[w].items) = 3
        /\ wk[w].items[2] = DenyID
        /\ wk[w].idx = 3

\* C23: after an Update of the power collector that read the power resource
\* of the main chassis, the snapshot holds one reading for each of the n PSU
\* entries of the resource, and the display names of the readings are
\* "PSU 1" ... "PSU n", whatever the entries' own names are.
C23_PsuOrdinalNames ==
    \A w \in Workers :
        (w[2] = "power" /\ wk[w].pc = "done" /\ ~wk[w].failed) =>
            LET n == Len(PowerOf(sess[ClientOf(w)].host, MainID).PowerSupplies)
                rd == coll[w].readings
            IN /\ Cardinality(DOMAIN rd) = n
               /\ {rd[k].name : k \in DOMAIN rd} = {<<"PSU", i>> : i \in 1..n}

\* C24: the Update of the sensors collector.  When the lookup of the main
\* chassis fails, Update returns with an empty snapshot and without a thermal
\* or power read.  When the thermal read fails, Update returns with an empty
\* snapshot and without a power read.  When the thermal read succeeds and
\* the power read fails, Update returns with the temperature readings and
\* nothing else in the snapshot.  Update never returns an error: no step of
\* the sensors goroutine puts anything on the error channel.
TemperaturesOf(w) ==
    tempFill(EmptyMap, ThermalOf(HostOfConn(wk[w].conn), MainID).Temperatures, 1)

C24_SensorsFailures ==
    [][\A w \in Workers :
         (w[2] = "sensors" /\ wk'[w] # wk[w]) =>
           /\ errChan' = errChan
           /\ (wk[w].pc \in GmcPcs /\ wk'[w].pc \notin GmcPcs) =>
                 \/ wk'[w].pc = "sen_thermal" /\ wk'[w].ch = MainID
                 \/ /\ wk'[w].pc = "done"
                    /\ coll'[w].readings = EmptyMap
           /\ (wk[w].pc = "sen_thermal") =>
                 IF faults' < faults
                 THEN /\ wk'[w].pc = "done"
                      /\ coll'[w].readings = EmptyMap
                 ELSE /\ wk'[w].pc = "sen_power"
                      /\ coll'[w].readings = TemperaturesOf(w)
           /\ (wk[w].pc = "sen_power" /\ faults' < faults) =>
                 /\ wk'[w].pc = "done"
                 /\ coll'[w].readings = TemperaturesOf(w)]_vars

\* A sensors Update has returned after a failed power read, and the snapshot
\* holds the temperatures of the main chassis.
C24_Witness ==
    \E w \in Workers :
        /\ w[2] = "sensors"
        /\ wk[w].pc = "done"
        /\ wk[w].failed
        /\ DOMAIN coll[w].readings # {}
        /\ coll[w].readings =
             tempFill(EmptyMap, ThermalOf(sess[ClientOf(w)].host, MainID).Temperatures, 1)
        /\ errChan[w[1]] = << >>

\* C25: after an Update of the telemetry collector that read the power
\* resource, the reading is the consumed-watts value of the first
\* power-control entry that is strictly positive, whatever follows it, and 0
\* when there is none; after an Update whose chassis lookup or power read
\* failed the reading is 0.  Collect emits the power-consumption sample with
\* the reading as its value when the reading is strictly positive, and no
\* sample otherwise.
WattValues == {-1, 0, 5, 7}
WattLists == UNION {[1..n -> WattValues] : n \in 0..MaxList}

FirstPositive(pcs) ==
    LET pos == {i \in 1..Len(pcs) : pcs[i] > 0} IN
    IF pos = {} THEN 0 ELSE pcs[CHOOSE i \in pos : \A j \in pos : i <= j]

C25_FirstPositiveWatts ==
    \A w \in Workers :
        (w[2] = "telemetry" /\ wk[w].pc = "done") =>
            LET reading == coll[w].readings[WattsKey]
                emitted == CollectSamples("telemetry", coll[w].readings, "")
            IN /\ IF wk[w].failed THEN reading = 0
                  ELSE reading = FirstPositive(PowerOf(sess[ClientOf(w)].host, MainID).PowerControl)
               /\ \A l \in WattLists : telemetryFill(0, l, 1) = FirstPositive(l)
               /\ emitted = IF reading > 0
                            THEN {Sample("ipmi_telemetry_power_consumption_watts", << >>, reading)}
                            ELSE {}

\* A telemetry Update has stored the second power-control entry: the first
\* one is 0 and a third, strictly positive one follows.
C25_Witness ==
    \E w \in Workers :
        /\ w[2] = "telemetry"
        /\ wk[w].pc = "done"
        /\ ~wk[w].failed
        /\ LET pcs == PowerOf(sess[ClientOf(w)].host, MainID).PowerControl IN
           /\ Len(pcs) = 3
           /\ pcs[1] = 0
           /\ pcs[3] > 0
           /\ pcs[3] # pcs[2]
           /\ coll[w].readings[WattsKey] = pcs[2]

\* C26: after an Update of the system collector that read the processors,
\* Collect emits for every processor of the first system, the first one
\* included, a CPU-health sample whose value is the health mapping of that
\* processor's own status, and one memory-health sample whose value is the
\* health mapping of the status of the memory summary.
C26_CpuHealthOwnStatus ==
    \A w \in Workers :
        (w[2] = "system" /\ wk[w].pc = "done" /\ ~wk[w].failed) =>
            LET h == sess[ClientOf(w)].host
                cpus == ProcessorsOf(h)
                emitted == CollectSamples("system", coll[w].readings, coll[w].firstCPUID)
                cpuHealth(id) == {x.value : x \in {y \in emitted :
                                     y.metric = "ipmi_cpu_health" /\ y.labels[1] = id}}
                memHealth == {x.value : x \in {y \in emitted : y.metric = "ipmi_memory_health"}}
            IN /\ \A i \in 1..Len(cpus) :
                    cpuHealth(cpus[i].ID) = {HealthTable(cpus[i].Health)}
               /\ memHealth = {HealthTable(SystemsOf(h)[1].MemHealth)}
               /\ coll[w].firstCPUID = cpus[1].ID

\* C27: a scrape of one target is not held up by a scrape of another target.
\* When the second request is for a target whose client is in the registry
\* and the remote side has no failure left to answer with, the request is
\* answered in the end, also when the first request is connecting to another
\* target at that moment and its connect never returns (unless the first
\* request leaves that other target in the meantime).
C27_TargetsDoNotInteract ==
    (/\ req["r2"].pc = "getClient"
     /\ NormalizeTarget(req["r2"].host) = T2
     /\ T2 \in DOMAIN clients
     /\ req["r1"].pc = "connecting"
     /\ req["r1"].host = T1
     /\ faults = 0)
    ~> (req["r2"].pc = "responded" \/ req["r1"].host # T1)

\* C28: whatever target a request gives, the hostname getClient connects to
\* and the hostnames that are keys of the registry start with neither
\* "http://" nor "https://", and normalising such a hostname once more
\* leaves it as it is.
Schemes == {"http://", "https://"}

HasScheme(h) == Len(h) > 0 /\ Head(h) \in Schemes

C28_NormalizationComplete ==
    /\ \A r \in Reqs :
          req[r].pc = "connecting" =>
              /\ ~HasScheme(req[r].host)
              /\ NormalizeTarget(req[r].host) = req[r].host
    /\ \A h \in DOMAIN clients :
          /\ ~HasScheme(h)
          /\ NormalizeTarget(h) = h

\* C29: when the connect of getClient fails, the registry, the clients and
\* the connections stay as they were (no entry for the hostname), the
\* request is answered 200 with no samples and nothing on the error channel,
\* and the registry's mutex is free again; a later getClient for a hostname
\* that has no entry in the registry connects.
C29_ConnectFailure ==
    [][\A r \in Reqs :
         /\ (req[r].pc = "connecting" /\ req'[r].pc = "responded") =>
               /\ clients' = clients
               /\ req[r].host \notin DOMAIN clients'
               /\ sess' = sess
               /\ conns' = conns
               /\ req'[r].status = 200
               /\ req'[r].stream = {}
               /\ req'[r].client = 0
               /\ errChan' = errChan
               /\ regMutex' = None
               /\ \A v \in Variants : wk'[<<r, v>>] = wk[<<r, v>>]
         /\ (req[r].pc = "getClient" /\ req'[r].pc # "getClient"
               /\ NormalizeTarget(req[r].host) \notin DOMAIN clients) =>
               /\ req'[r].pc = "connecting"
               /\ req'[r].host = NormalizeTarget(req[r].host)]_vars

\* A request connects to a host while the other request, for the same host,
\* stands answered after its connect failed: there is no connection, no
\* client, and the one failure has been spent.
C29_Witness ==
    \E r \in Reqs, q \in Reqs :
        /\ r # q
        /\ req[r].pc = "connecting"
        /\ req[r].host \in Hosts
        /\ req[q].pc = "responded"
        /\ req[q].status = 200
        /\ req[q].host = req[r].host
        /\ req[q].stream = {}
        /\ clients = EmptyMap
        /\ conns = << >>
        /\ faults = 0

\* C30: the client of a registry entry never holds a connection that has
\* been logged out, and no goroutine issues a remote call on a connection
\* that has been logged out (by a reconnect, or by Close while the scrape
\* that got the client is still running).
C30_NoCallAfterLogout ==
    /\ [](\A h \in DOMAIN clients :
            sess[clients[h]].handle # 0 => conns[sess[clients[h]].handle].logouts = 0)
    /\ [][\A w \in Workers :
            (wk'[w].pc \in ReadPcs /\ wk'[w].pc # wk[w].pc) =>
                /\ wk'[w].conn # 0
                /\ conns'[wk'[w].conn].logouts = 0]_vars

\* C31: after an Update of the sensors collector whose thermal and power
\* reads both succeeded, the snapshot holds a temperature reading for every
\* temperature entry with a name and a voltage reading for every voltage
\* entry with a name, also for a temperature and a voltage of the same name.
C31_SensorsOwnReadings ==
    \A w \in Workers :
        (w[2] = "sensors" /\ wk[w].pc = "done" /\ ~wk[w].failed) =>
            LET h == sess[ClientOf(w)].host
                temps == ThermalOf(h, MainID).Temperatures
                volts == PowerOf(h, MainID).Voltages
                held == {coll[w].readings[k] : k \in DOMAIN coll[w].readings}
            IN /\ \A i \in 1..Len(temps) :
                    temps[i].Name # "" =>
                        \E x \in held : /\ x.sensorType = "temperature"
                                         /\ x.name = temps[i].Name
                                         /\ x.value = temps[i].Celsius
               /\ \A i \in 1..Len(volts) :
                    volts[i].Name # "" =>
                        \E x \in held : /\ x.sensorType = "voltage"
                                         /\ x.name = volts[i].Name
                                         /\ x.value = Round3(volts[i].Volts)

\* C32: reporting a failure never blocks an Update goroutine.  A goroutine
\* sends on the error channel at most once, in the step in which it returns,
\* and at that moment the channel holds fewer errors than its capacity, which
\* is the number of collectors; the channel is closed and drained only when
\* all five goroutines of the request have returned.
C32_ErrorReportNeverBlocks ==
    [][\A r \in Reqs :
         errChan'[r] # errChan[r] =>
           IF errChan'[r] = << >>
           THEN \/ req'[r].pc \in {"wait", "idle", "harness"}
                \/ /\ req[r].pc = "wait"
                   /\ req'[r].pc = "collect"
                   /\ \A v \in Variants : wk[<<r, v>>].pc = "done"
           ELSE /\ Len(errChan[r]) < ErrChanCap
                /\ ErrChanCap = Cardinality(Variants)
                /\ req[r].pc = "wait"
                /\ \E v \in Variants :
                      /\ errChan'[r] = Append(errChan[r], v)
                      /\ v \notin Range(errChan[r])
                      /\ wk[<<r, v>>].pc \notin {"idle", "done"}
                      /\ wk'[<<r, v>>].pc = "done"]_vars

\* A goroutine has reported its failure and returned while others of the
\* request are still running and the handler waits at the join.
C32_Witness ==
    \E r \in Reqs :
        /\ req[r].pc = "wait"
        /\ Len(errChan[r]) = 1
        /\ wk[<<r, errChan[r][1]>>].pc = "done"
        /\ \E v \in Variants : wk[<<r, v>>].pc \notin {"idle", "done"}

\* C33: the stream of a scrape never holds two samples with the same metric
\* name and the same label values.  The readings of a snapshot carry
\* pairwise different display names, and so do the readings that the PSU
\* loops of the power collector build from any list of up to MaxList PSU
\* entries, with names that are empty or repeated.
PsuNames == {"", "A", "B"}
PsuLists == UNION {[1..n -> PsuNames] : n \in 0..MaxList}

DistinctNames(rd) ==
    \A k1 \in DOMAIN rd : \A k2 \in DOMAIN rd : k1 # k2 => rd[k1].name # rd[k2].name

C33_NoDuplicateSamples ==
    /\ \A r \in Reqs :
          \A s1 \in req[r].stream : \A s2 \in req[r].stream :
              (s1.metric = s2.metric /\ s1.labels = s2.labels) => s1 = s2
    /\ \A w \in Workers :
          /\ w[2] # "telemetry" => DistinctNames(coll[w].readings)
          /\ (w[2] = "power" /\ wk[w].pc = "done") =>
                \A l \in PsuLists :
                    LET psus == [i \in 1..Len(l) |-> PSU(l[i], "OK", 10 * i, T1)]
                        main == psuFill(EmptyMap, psus, 1, 0).readings
                        alt == altPsuFill(EmptyMap, psus, 1, 0).readings
                    IN /\ DistinctNames(main)
                       /\ DistinctNames(alt)
                       /\ Cardinality(powerSamples(main)) = 3 * Cardinality(DOMAIN main)
                       /\ Cardinality(powerSamples(alt)) = 3 * Cardinality(DOMAIN alt)

\* A scrape was answered with a stream that holds several samples of one
\* metric (under different labels), the PSU samples of two PSUs among them.
C33_Witness ==
    \E r \in Reqs :
        /\ req[r].pc = "responded"
        /\ \E s1 \in req[r].stream : \E s2 \in req[r].stream :
              /\ s1.metric = "ipmi_psu_health"
              /\ s2.metric = "ipmi_psu_health"
              /\ s1.labels # s2.labels

====
